---------------------------- MODULE Spec2Model ----------------------------
(***************************************************************************)
(* State-machine model of the simulation core of the Breakout game         *)
(* (src/Breakout Game/Breakout_turtle.py): paddle, ball, bricks, HUD        *)
(* counters, the collision stages of tick() and the key-bound inputs.       *)
(*                                                                         *)
(* Numbers.  The source computes in Python floats.  The model computes in  *)
(* fixed point: every length, coordinate, velocity and speed is an integer *)
(* number of 1/Scale pixels (pixels per tick for velocities).  math.cos    *)
(* and math.sin are read from a table of whole degrees; the paddle bounce  *)
(* angle is rounded to the nearest whole degree before the table is read.  *)
(*                                                                         *)
(* Size.  The source builds a field of 6 rows of 10 bricks.  The model     *)
(* builds Rows x Cols bricks with the source's placement formula; Rows and *)
(* Cols are bounds of the model, as are the budgets of the input           *)
(* environment (paddle moves, flight length, levels, restarts).            *)
(***************************************************************************)
EXTENDS Integers, Sequences, FiniteSets

(* ------------------------------ bounds --------------------------------- *)
\* brick rows built by build_bricks (the source builds BRICK_ROWS = 6)
Rows == 1
\* brick columns built by build_bricks (the source builds BRICK_COLS = 10)
Cols == 2
\* paddle moves (move_left + move_right) the environment issues in a run
MaxMoves == 2
\* consecutive ticks of one free flight of the ball
MaxFlight == 205
\* launch() is issued only while level <= MaxLevel
MaxLevel == 2
\* restart() calls the environment issues in a run
MaxRestarts == 1
\* budgets of the paddle-centred environment (SpecPaddle)
MaxPaddleMoves == 14
MaxPaddleFlight == 3
\* budgets of the long-rally environment (SpecRally): the paddle moves only
\* while the ball is stuck or the game is over, and launches are counted
MaxRallyMoves == 1
MaxRallyFlight == 9000
MaxRallyLaunches == 2
\* budgets of the wall-corner environment (SpecWall): one launch, and paddle
\* moves enough to bring the paddle from the centre to the side wall
MaxWallMoves == 12
MaxWallFlight == 190
MaxWallLaunches == 1
\* budgets of the many-levels environment (SpecLevels): launches are issued
\* while level <= MaxLevelsLevel, straight up, and the paddle moves only
\* while the ball is stuck or the game is over
MaxLevelsLevel == 10
MaxLevelsMoves == 1
MaxLevelsFlight == 230

(* ------------------------- numeric representation ----------------------- *)
\* fixed-point units per pixel
Scale == 1000
\* the trigonometric table holds sin(a) * TrigScale, rounded
TrigScale == 10000

(* ------------------------------- CONFIG --------------------------------- *)
WIDTH == 900
HEIGHT == 650
TOP_WALL == HEIGHT \div 2 - 30
BOTTOM_WALL == (-HEIGHT) \div 2 + 30

PADDLE_Y == BOTTOM_WALL + 45
PADDLE_W == 120
PADDLE_H == 18
PADDLE_SPEED == 30

BALL_SIZE == 12
\* BALL_SPEED_START is a module global that next_level() and restart()
\* rewrite: it is the variable BALL_SPEED_START; this is its first value.
BALL_SPEED_DEFAULT == 6 * Scale
BALL_SPEED_MAX == 14 * Scale

BRICK_W == 78
BRICK_H == 24
BRICK_GAP_X == 10
BRICK_GAP_Y == 10
BRICK_TOP_MARGIN == 70

LIVES_START == 3

\* the literals of the source that are not named there
LEVEL_SPEED_CAP == 10 * Scale
LEVEL_SPEED_STEP == Scale \div 2
PADDLE_SPEED_UP == (15 * Scale) \div 100
BRICK_SPEED_UP == (5 * Scale) \div 100
BRICK_SCORE == 10
PADDLE_MARGIN == 12
STUCK_OFFSET == 20
NUDGE_OFFSET == 28
WALL_INSET == 15
BOTTOM_DROP == 60
LAUNCH_MIN == 35
LAUNCH_MAX == 145
BOUNCE_SPREAD == 60

\* px(n): n pixels in fixed-point units
px(n) == n * Scale

(* ------------------------------- state ---------------------------------- *)
VARIABLES
    paddle,            \* [x, y]: Paddle.xcor(), Paddle.ycor()
    ball,              \* [x, y, dx, dy, speed_mag, stuck]
    bricks,            \* creation-ordered sequence of Brick.isvisible()
    hud,               \* [score, lives, level]
    game_over,         \* BreakoutGame.game_over
    BALL_SPEED_START,  \* the module global
    op,                \* the operation that produced this state
    moves,             \* paddle moves issued so far
    flight,            \* ticks of the latest free flight (0 at its launch)
    restarts,          \* restart() calls issued so far
    launches,          \* launches counted against env.maxLaunches
    env,               \* the environment: [maxMoves, maxFlight, flightMoves,
                       \*   angles, limitLaunches, maxLaunches, maxLevel]
    board,             \* Tic_tac_toe.py: play()'s board, cells 0..8
    current,           \* play()'s current player
    pc,                \* where play() is: "input", "done", "raised"
    outcome,           \* what play() announced: "X", "O", "draw", or "None"
    said               \* the reply to the latest line of input

progVars == <<paddle, ball, bricks, hud, game_over, BALL_SPEED_START>>
gameVars == <<paddle, ball, bricks, hud, game_over, BALL_SPEED_START,
              op, moves, flight, restarts, launches, env>>
playVars == <<board, current, pc, outcome, said>>
vars == <<paddle, ball, bricks, hud, game_over, BALL_SPEED_START,
          op, moves, flight, restarts, launches, env,
          board, current, pc, outcome, said>>

\* the program state as one value, the argument of the operators below
G == [paddle |-> paddle, ball |-> ball, bricks |-> bricks, hud |-> hud,
      game_over |-> game_over, start |-> BALL_SPEED_START]

(* ------------------------------ HELPERS --------------------------------- *)
Abs(n) == IF n < 0 THEN -n ELSE n
Max2(a, b) == IF a >= b THEN a ELSE b
Min2(a, b) == IF a <= b THEN a ELSE b

\* a / b rounded to the nearest integer (b > 0), halves away from zero
RoundDiv(a, b) ==
    IF a >= 0 THEN (2 * a + b) \div (2 * b) ELSE -((2 * (-a) + b) \div (2 * b))

RECURSIVE SqrtSearch(_, _, _)
SqrtSearch(n, lo, hi) ==
    IF lo >= hi THEN lo
    ELSE LET mid == (lo + hi + 1) \div 2
         IN IF mid * mid <= n THEN SqrtSearch(n, mid, hi)
            ELSE SqrtSearch(n, lo, mid - 1)

\* math.hypot, rounded to the nearest unit
hypot(a, b) ==
    LET n == a * a + b * b
        r == SqrtSearch(n, 0, 2 * BALL_SPEED_MAX)
    IN IF n - r * r > r THEN r + 1 ELSE r

SinTab ==
    << 0, 175, 349, 523, 698, 872, 1045, 1219, 1392, 1564, 1736, 1908, 2079,
       2250, 2419, 2588, 2756, 2924, 3090, 3256, 3420, 3584, 3746, 3907, 4067,
       4226, 4384, 4540, 4695, 4848, 5000, 5150, 5299, 5446, 5592, 5736, 5878,
       6018, 6157, 6293, 6428, 6561, 6691, 6820, 6947, 7071, 7193, 7314, 7431,
       7547, 7660, 7771, 7880, 7986, 8090, 8192, 8290, 8387, 8480, 8572, 8660,
       8746, 8829, 8910, 8988, 9063, 9135, 9205, 9272, 9336, 9397, 9455, 9511,
       9563, 9613, 9659, 9703, 9744, 9781, 9816, 9848, 9877, 9903, 9925, 9945,
       9962, 9976, 9986, 9994, 9998, 10000 >>

\* math.sin(math.radians(a)) * TrigScale for a whole angle a in 0..180
Sin(a) == IF a <= 90 THEN SinTab[a + 1] ELSE SinTab[180 - a + 1]
\* math.cos(math.radians(a)) * TrigScale for a whole angle a in 0..180
Cos(a) == IF a <= 90 THEN SinTab[90 - a + 1] ELSE -SinTab[a - 90 + 1]

clamp(x, lo, hi) == Max2(lo, Min2(hi, x))

aabb_collide(ax, ay, aw, ah, bx, by, bw, bh) ==
    /\ Abs(ax - bx) * 2 < aw + bw
    /\ Abs(ay - by) * 2 < ah + bh

(* ------------------------------ Paddle ---------------------------------- *)
paddle_limit == px(WIDTH \div 2 - PADDLE_W \div 2 - PADDLE_MARGIN)

\* move_left taking a stuck ball along with the paddle
move_left_carries_ball(g) ==
    LET x == clamp(g.paddle.x - px(PADDLE_SPEED), -paddle_limit, paddle_limit)
    IN IF g.ball.stuck
       THEN [g EXCEPT !.paddle.x = x, !.ball.x = x]
       ELSE [g EXCEPT !.paddle.x = x]

move_left(g) ==
    LET x == g.paddle.x - px(PADDLE_SPEED)
    IN [g EXCEPT !.paddle.x = clamp(x, -paddle_limit, paddle_limit)]

\* move_right without the clamp
move_right_no_clamp(g) ==
    [g EXCEPT !.paddle.x = g.paddle.x + px(PADDLE_SPEED)]

move_right(g) ==
    LET x == g.paddle.x + px(PADDLE_SPEED)
    IN [g EXCEPT !.paddle.x = clamp(x, -paddle_limit, paddle_limit)]

(* ------------------------------- Ball ----------------------------------- *)
reset_to_paddle(g) ==
    [g EXCEPT !.ball = [x |-> g.paddle.x, y |-> g.paddle.y + px(STUCK_OFFSET),
                        dx |-> 0, dy |-> 0,
                        speed_mag |-> g.start, stuck |-> TRUE]]

\* launch without the early return for a ball that is not stuck
launch_in_flight(g, angle) ==
    [g EXCEPT !.ball.stuck = FALSE,
              !.ball.dx = RoundDiv(Cos(angle) * g.ball.speed_mag, TrigScale),
              !.ball.dy = RoundDiv(Sin(angle) * g.ball.speed_mag, TrigScale)]

\* angle: the value random.uniform(35, 145) returned, a whole degree here
launch(g, angle) ==
    IF ~g.ball.stuck THEN g
    ELSE [g EXCEPT !.ball.stuck = FALSE,
                   !.ball.dx = RoundDiv(Cos(angle) * g.ball.speed_mag, TrigScale),
                   !.ball.dy = RoundDiv(Sin(angle) * g.ball.speed_mag, TrigScale)]

update(g) ==
    IF g.ball.stuck THEN g
    ELSE [g EXCEPT !.ball.x = g.ball.x + g.ball.dx,
                   !.ball.y = g.ball.y + g.ball.dy]

\* speed_up without the cap at BALL_SPEED_MAX
speed_up_uncapped(g, amount) ==
    LET sm == g.ball.speed_mag + amount
        mag == hypot(g.ball.dx, g.ball.dy)
    IN IF mag > 0
       THEN [g EXCEPT !.ball.speed_mag = sm,
                      !.ball.dx = RoundDiv(g.ball.dx * sm, mag),
                      !.ball.dy = RoundDiv(g.ball.dy * sm, mag)]
       ELSE [g EXCEPT !.ball.speed_mag = sm]

speed_up(g, amount) ==
    LET sm == Min2(BALL_SPEED_MAX, g.ball.speed_mag + amount)
        mag == hypot(g.ball.dx, g.ball.dy)
    IN IF mag > 0
       THEN [g EXCEPT !.ball.speed_mag = sm,
                      !.ball.dx = RoundDiv(g.ball.dx * sm, mag),
                      !.ball.dy = RoundDiv(g.ball.dy * sm, mag)]
       ELSE [g EXCEPT !.ball.speed_mag = sm]

(* ------------------------------ Bricks ---------------------------------- *)
NBricks == Rows * Cols
brick_row(i) == (i - 1) \div Cols
brick_col(i) == (i - 1) % Cols
brick_start_x ==
    (-px(Cols * BRICK_W + (Cols - 1) * BRICK_GAP_X)) \div 2 + px(BRICK_W) \div 2
brick_start_y == px(TOP_WALL - BRICK_TOP_MARGIN)
\* Brick.xcor(), Brick.ycor() of the i-th brick created
brick_x(i) == brick_start_x + brick_col(i) * px(BRICK_W + BRICK_GAP_X)
brick_y(i) == brick_start_y - brick_row(i) * px(BRICK_H + BRICK_GAP_Y)

build_bricks(g) == [g EXCEPT !.bricks = [i \in 1..NBricks |-> TRUE]]


(* --------------------------- BreakoutGame ------------------------------- *)
\* reset_round putting the ball on the paddle before recentring the paddle
reset_round_ball_first(g, full_reset) ==
    LET g1 == IF full_reset
              THEN [g EXCEPT !.hud = [score |-> 0, lives |-> LIVES_START,
                                      level |-> 1]]
              ELSE g
        g2 == build_bricks(g1)
        g3 == reset_to_paddle(g2)
        g4 == [g3 EXCEPT !.paddle = [x |-> 0, y |-> px(PADDLE_Y)]]
    IN [g4 EXCEPT !.game_over = FALSE]

reset_round(g, full_reset) ==
    LET g1 == IF full_reset
              THEN [g EXCEPT !.hud = [score |-> 0, lives |-> LIVES_START,
                                      level |-> 1]]
              ELSE g
        g2 == build_bricks(g1)
        g3 == [g2 EXCEPT !.paddle = [x |-> 0, y |-> px(PADDLE_Y)]]
        g4 == reset_to_paddle(g3)
    IN [g4 EXCEPT !.game_over = FALSE]

\* next_level without the ball reset
next_level_ball_flying(g) ==
    build_bricks([g EXCEPT !.hud.level = g.hud.level + 1,
                           !.start = Min2(LEVEL_SPEED_CAP,
                                          g.start + LEVEL_SPEED_STEP)])

\* next_level starting the new level with the score cleared
next_level_full_reset(g) ==
    LET g1 == [g EXCEPT !.hud.level = g.hud.level + 1,
                        !.start = Min2(LEVEL_SPEED_CAP,
                                       g.start + LEVEL_SPEED_STEP)]
    IN [reset_to_paddle(build_bricks(g1)) EXCEPT !.hud.score = 0]

\* next_level without the cap of the starting speed at 10.0
next_level_uncapped(g) ==
    LET g1 == [g EXCEPT !.hud.level = g.hud.level + 1,
                        !.start = g.start + LEVEL_SPEED_STEP]
    IN reset_to_paddle(build_bricks(g1))

next_level(g) ==
    LET g1 == [g EXCEPT !.hud.level = g.hud.level + 1,
                        !.start = Min2(LEVEL_SPEED_CAP,
                                       g.start + LEVEL_SPEED_STEP)]
    IN reset_to_paddle(build_bricks(g1))

\* restart without the reset of the global starting speed
restart_keeps_speed(g) == reset_round(g, TRUE)

restart(g) == reset_round([g EXCEPT !.start = BALL_SPEED_DEFAULT], TRUE)

\* the glue branch left out
glue_missing(g) == g

\* the glue branch: a stuck ball tracks the paddle
glue_to_paddle(g) ==
    [g EXCEPT !.ball.x = g.paddle.x,
              !.ball.y = g.paddle.y + px(STUCK_OFFSET)]

\* the condition under which a paddle hit is registered
paddle_hit(g) ==
    /\ aabb_collide(g.ball.x, g.ball.y, px(BALL_SIZE), px(BALL_SIZE),
                    g.paddle.x, g.paddle.y, px(PADDLE_W), px(PADDLE_H))
    /\ g.ball.dy < 0

\* angle = 90 + offset * 60 with offset = clamp((bx - px) / (PADDLE_W / 2), -1, 1),
\* in whole degrees
bounce_angle(g) ==
    LET half == px(PADDLE_W) \div 2
        off == clamp(g.ball.x - g.paddle.x, -half, half)
    IN 90 + RoundDiv(off * BOUNCE_SPREAD, half)

\* the hit branch without the nudge above the paddle
paddle_bounce_no_nudge(g) ==
    LET a == bounce_angle(g)
        g1 == [g EXCEPT
                 !.ball.dx = RoundDiv(Cos(a) * g.ball.speed_mag, TrigScale),
                 !.ball.dy = Abs(RoundDiv(Sin(a) * g.ball.speed_mag, TrigScale))]
    IN speed_up(g1, PADDLE_SPEED_UP)

\* the body of the hit branch
paddle_bounce(g) ==
    LET a == bounce_angle(g)
        g1 == [g EXCEPT
                 !.ball.dx = RoundDiv(Cos(a) * g.ball.speed_mag, TrigScale),
                 !.ball.dy = Abs(RoundDiv(Sin(a) * g.ball.speed_mag, TrigScale))]
        g2 == speed_up(g1, PADDLE_SPEED_UP)
    IN [g2 EXCEPT !.ball.y = g.paddle.y + px(NUDGE_OFFSET)]

paddle_ball_collision(g) ==
    IF g.ball.stuck THEN glue_to_paddle(g)
    ELSE IF paddle_hit(g) THEN paddle_bounce(g)
    ELSE g

half_w == px(WIDTH \div 2 - WALL_INSET)

\* x, y: the ball position read at the start of wall_collisions
side_walls(g, x) ==
    IF x >= half_w - px(BALL_SIZE) /\ g.ball.dx > 0
    THEN [g EXCEPT !.ball.dx = -g.ball.dx, !.ball.x = half_w - px(BALL_SIZE)]
    ELSE IF x <= -half_w + px(BALL_SIZE) /\ g.ball.dx < 0
    THEN [g EXCEPT !.ball.dx = -g.ball.dx, !.ball.x = -half_w + px(BALL_SIZE)]
    ELSE g

top_wall(g, y) ==
    IF y >= px(TOP_WALL - BALL_SIZE) /\ g.ball.dy > 0
    THEN [g EXCEPT !.ball.dy = -g.ball.dy, !.ball.y = px(TOP_WALL - BALL_SIZE)]
    ELSE g

\* the bottom test at the wall line itself
bottom_breach_at_wall(y) == y <= px(BOTTOM_WALL)

\* the bottom threshold test on the position read at the start
bottom_breach(y) == y <= px(BOTTOM_WALL - BOTTOM_DROP)

\* life_lost with the game-over test written lives < 0
life_lost_no_game_over(g) ==
    LET g1 == [g EXCEPT !.hud.lives = g.hud.lives - 1]
    IN IF g1.hud.lives < 0
       THEN [g1 EXCEPT !.game_over = TRUE]
       ELSE reset_to_paddle(g1)

\* life_lost resetting the round with reset_round(full_reset=False)
life_lost_rebuilds(g) ==
    LET g1 == [g EXCEPT !.hud.lives = g.hud.lives - 1]
    IN IF g1.hud.lives <= 0
       THEN [g1 EXCEPT !.game_over = TRUE]
       ELSE reset_round(g1, FALSE)

\* life_lost putting the ball back without resetting speed_mag
life_lost_keeps_speed(g) ==
    LET g1 == [g EXCEPT !.hud.lives = g.hud.lives - 1]
    IN IF g1.hud.lives <= 0
       THEN [g1 EXCEPT !.game_over = TRUE]
       ELSE [g1 EXCEPT !.ball = [x |-> g.paddle.x,
                                 y |-> g.paddle.y + px(STUCK_OFFSET),
                                 dx |-> 0, dy |-> 0,
                                 speed_mag |-> g.ball.speed_mag,
                                 stuck |-> TRUE]]

life_lost(g) ==
    LET g1 == [g EXCEPT !.hud.lives = g.hud.lives - 1]
    IN IF g1.hud.lives <= 0
       THEN [g1 EXCEPT !.game_over = TRUE]
       ELSE reset_to_paddle(g1)

wall_collisions(g) ==
    IF g.ball.stuck THEN g
    ELSE LET x == g.ball.x
             y == g.ball.y
             g1 == top_wall(side_walls(g, x), y)
         IN IF bottom_breach(y) THEN life_lost(g1) ELSE g1

\* the visible bricks the ball's box overlaps, by creation index
overlapping(g) ==
    {i \in DOMAIN g.bricks :
        /\ g.bricks[i]
        /\ aabb_collide(g.ball.x, g.ball.y, px(BALL_SIZE), px(BALL_SIZE),
                        brick_x(i), brick_y(i), px(BRICK_W), px(BRICK_H))}

\* the loop without its break: every overlapping visible brick is resolved
resolved_no_break(g) == overlapping(g)

\* the bricks the loop resolves: it breaks after the first hit
resolved(g) ==
    LET o == overlapping(g)
    IN IF o = {} THEN {} ELSE {CHOOSE i \in o : \A j \in o : i <= j}

\* the bounce with the comparison of the overlap extents reversed
brick_bounce_reversed(g, i) ==
    LET ddx == g.ball.x - brick_x(i)
        ddy == g.ball.y - brick_y(i)
        overlap_x == (px(BRICK_W) \div 2 + px(BALL_SIZE) \div 2) - Abs(ddx)
        overlap_y == (px(BRICK_H) \div 2 + px(BALL_SIZE) \div 2) - Abs(ddy)
    IN IF overlap_x > overlap_y
       THEN [g EXCEPT !.ball.dx = -g.ball.dx]
       ELSE [g EXCEPT !.ball.dy = -g.ball.dy]

\* the bounce decided from the overlap extents with brick i
brick_bounce(g, i) ==
    LET ddx == g.ball.x - brick_x(i)
        ddy == g.ball.y - brick_y(i)
        overlap_x == (px(BRICK_W) \div 2 + px(BALL_SIZE) \div 2) - Abs(ddx)
        overlap_y == (px(BRICK_H) \div 2 + px(BALL_SIZE) \div 2) - Abs(ddy)
    IN IF overlap_x < overlap_y
       THEN [g EXCEPT !.ball.dx = -g.ball.dx]
       ELSE [g EXCEPT !.ball.dy = -g.ball.dy]

\* the body of the loop without the call of speed_up(0.05)
hit_brick_no_speed_up(g, i) ==
    LET g1 == brick_bounce(g, i)
    IN [g1 EXCEPT !.bricks[i] = FALSE,
                  !.hud.score = g1.hud.score + BRICK_SCORE]

\* the body of the loop for an overlapping visible brick i
hit_brick(g, i) ==
    LET g1 == brick_bounce(g, i)
        g2 == [g1 EXCEPT !.bricks[i] = FALSE,
                         !.hud.score = g1.hud.score + BRICK_SCORE]
    IN speed_up(g2, BRICK_SPEED_UP)

RECURSIVE hit_all(_, _)
hit_all(g, todo) ==
    IF todo = {} THEN g
    ELSE LET i == CHOOSE k \in todo : \A j \in todo : k <= j
         IN hit_all(hit_brick(g, i), todo \ {i})

\* the level-complete test written with any() in place of all()
level_complete_any(g) == \E i \in DOMAIN g.bricks : ~g.bricks[i]

level_complete(g) == \A i \in DOMAIN g.bricks : ~g.bricks[i]

brick_collisions(g) ==
    IF g.ball.stuck THEN g
    ELSE LET g1 == hit_all(g, resolved(g))
         IN IF level_complete(g1) THEN next_level(g1) ELSE g1

\* the three collision stages, in the order tick() calls them
collisions(g) == brick_collisions(wall_collisions(paddle_ball_collision(g)))

\* tick without the early return on game_over
tick_no_freeze(g) == collisions(update(g))

tick(g) == IF g.game_over THEN g ELSE collisions(update(g))

(* ------------------- Tic_tac_toe.py: the text game ---------------------- *)
\* play() builds the board as [" "] * 9, cells 0..8
NCells == 9
EMPTY == " "

\* the game state as one value, the argument of play below
T == [board |-> board, current |-> current, pc |-> pc, outcome |-> outcome]

\* check_winner's list of lines, in the order it tests them
wins ==
    << <<0, 1, 2>>, <<3, 4, 5>>, <<6, 7, 8>>,
       <<0, 3, 6>>, <<1, 4, 7>>, <<2, 5, 8>>,
       <<0, 4, 8>>, <<2, 4, 6>> >>

\* the mark of the first line of wins holding three equal marks, else "None"
check_winner(b) ==
    LET made == {k \in DOMAIN wins :
                    /\ b[wins[k][1]] # EMPTY
                    /\ b[wins[k][1]] = b[wins[k][2]]
                    /\ b[wins[k][2]] = b[wins[k][3]]}
    IN IF made = {} THEN "None"
       ELSE b[wins[CHOOSE k \in made : \A j \in made : k <= j][1]]

is_draw(b) == \A i \in DOMAIN b : b[i] # EMPTY

\* A line of input is a sequence of characters.  The characters the model
\* reads: the decimal digits, a blank, "-", a letter, and "sup2", standing
\* for U+00B2 (superscript two), a character str.isdigit() accepts and
\* int() does not.
Decimal == <<"0", "1", "2", "3", "4", "5", "6", "7", "8", "9">>
DecimalChars == {Decimal[i] : i \in DOMAIN Decimal}
DigitChars == DecimalChars \cup {"sup2"}

\* str.strip(): leading and trailing blanks removed
RECURSIVE strip(_)
strip(s) ==
    IF Len(s) = 0 THEN s
    ELSE IF s[1] = " " THEN strip(Tail(s))
    ELSE IF s[Len(s)] = " " THEN strip(SubSeq(s, 1, Len(s) - 1))
    ELSE s

\* str.isdigit(): non-empty and every character a digit character
isdigit(s) == Len(s) > 0 /\ \A i \in DOMAIN s : s[i] \in DigitChars

\* int() of a string that passed isdigit(): it raises ValueError unless
\* every character is a decimal digit
int_raises(s) == \E i \in DOMAIN s : s[i] \notin DecimalChars

digit_value(c) == (CHOOSE i \in DOMAIN Decimal : Decimal[i] = c) - 1

RECURSIVE int(_)
int(s) ==
    IF Len(s) = 0 THEN 0
    ELSE 10 * int(SubSeq(s, 1, Len(s) - 1)) + digit_value(s[Len(s)])

\* get_move without the test for a cell already taken
get_move_any_cell(player, b, text) ==
    LET move == strip(text)
    IN IF ~isdigit(move)
       THEN [kind |-> "continue", idx |-> -1, said |-> "not a number"]
       ELSE IF int_raises(move)
       THEN [kind |-> "ValueError", idx |-> -1, said |-> "ValueError"]
       ELSE LET idx == int(move) - 1
            IN IF idx < 0 \/ idx > 8
               THEN [kind |-> "continue", idx |-> -1, said |-> "out of range"]
               ELSE [kind |-> "return", idx |-> idx, said |-> "accepted"]

\* get_move reading the line text: one pass of its loop.  kind "return"
\* carries the index returned, kind "continue" the message printed before the
\* next prompt, kind "ValueError" the exception of int().
get_move(player, b, text) ==
    LET move == strip(text)
    IN IF ~isdigit(move)
       THEN [kind |-> "continue", idx |-> -1, said |-> "not a number"]
       ELSE IF int_raises(move)
       THEN [kind |-> "ValueError", idx |-> -1, said |-> "ValueError"]
       ELSE LET idx == int(move) - 1
            IN IF idx < 0 \/ idx > 8
               THEN [kind |-> "continue", idx |-> -1, said |-> "out of range"]
               ELSE IF b[idx] # EMPTY
               THEN [kind |-> "continue", idx |-> -1, said |-> "taken"]
               ELSE [kind |-> "return", idx |-> idx, said |-> "accepted"]

\* play() with the draw test ahead of the winner test
play_draw_first(t, text) ==
    LET m == get_move(t.current, t.board, text)
    IN IF m.kind = "continue" THEN t
       ELSE IF m.kind = "ValueError" THEN [t EXCEPT !.pc = "raised"]
       ELSE LET b == [t.board EXCEPT ![m.idx] = t.current]
                winner == check_winner(b)
            IN IF is_draw(b)
               THEN [t EXCEPT !.board = b, !.pc = "done", !.outcome = "draw"]
               ELSE IF winner # "None"
               THEN [t EXCEPT !.board = b, !.pc = "done", !.outcome = winner]
               ELSE [t EXCEPT !.board = b,
                              !.current = IF t.current = "X" THEN "O" ELSE "X"]

\* play() from one input() to the next: the line text is read by get_move;
\* an accepted move is marked, then the winner test, the draw test and the
\* change of player follow.  pc is "input" while play() waits in input(),
\* "done" after a break, "raised" after an uncaught exception.
play(t, text) ==
    LET m == get_move(t.current, t.board, text)
    IN IF m.kind = "continue" THEN t
       ELSE IF m.kind = "ValueError" THEN [t EXCEPT !.pc = "raised"]
       ELSE LET b == [t.board EXCEPT ![m.idx] = t.current]
                winner == check_winner(b)
            IN IF winner # "None"
               THEN [t EXCEPT !.board = b, !.pc = "done", !.outcome = winner]
               ELSE IF is_draw(b)
               THEN [t EXCEPT !.board = b, !.pc = "done", !.outcome = "draw"]
               ELSE [t EXCEPT !.board = b,
                              !.current = IF t.current = "X" THEN "O" ELSE "X"]

\* the lines typed at the prompt
Inputs ==
    {<<Decimal[i]>> : i \in DOMAIN Decimal}
    \cup {<<"1", "0">>, <<"0", "5">>, <<" ", "3", " ">>, << >>, <<" ">>,
          <<"x">>, <<"-", "1">>, <<"sup2">>}

\* play() before its first input()
InitPlay ==
    /\ board = [i \in 0..(NCells - 1) |-> EMPTY]
    /\ current = "X"
    /\ pc = "input"
    /\ outcome = "None"
    /\ said = "welcome"

(* ----------------------- construction and inputs ------------------------ *)
\* the fields as the constructors leave them, before reset_round(True)
constructed ==
    [paddle |-> [x |-> 0, y |-> px(PADDLE_Y)],
     ball |-> [x |-> 0, y |-> 0, dx |-> 0, dy |-> 0,
               speed_mag |-> BALL_SPEED_DEFAULT, stuck |-> TRUE],
     bricks |-> << >>,
     hud |-> [score |-> 0, lives |-> LIVES_START, level |-> 1],
     game_over |-> FALSE,
     start |-> BALL_SPEED_DEFAULT]

\* BreakoutGame.__init__
new_game == reset_round(constructed, TRUE)

\* the values random.uniform(35, 145) is taken to return
LaunchAngles == {LAUNCH_MIN, 75, 90, 105, LAUNCH_MAX}

\* the launch angles of the long-rally environment (SpecRally)
RallyAngles == {75, 90}

\* the launch angle of the wall-corner environment (SpecWall)
WallAngles == {68}

\* the launch angle of the many-levels environment (SpecLevels)
LevelsAngles == {90}

Commit(g) ==
    /\ paddle' = g.paddle
    /\ ball' = g.ball
    /\ bricks' = g.bricks
    /\ hud' = g.hud
    /\ game_over' = g.game_over
    /\ BALL_SPEED_START' = g.start

InitProgram ==
    /\ paddle = new_game.paddle
    /\ ball = new_game.ball
    /\ bricks = new_game.bricks
    /\ hud = new_game.hud
    /\ game_over = new_game.game_over
    /\ BALL_SPEED_START = new_game.start
    /\ op = "init"
    /\ moves = 0
    /\ flight = 0
    /\ restarts = 0
    /\ launches = 0
    /\ InitPlay

Init ==
    /\ InitProgram
    /\ env = [maxMoves |-> MaxMoves, maxFlight |-> MaxFlight,
              flightMoves |-> TRUE, angles |-> LaunchAngles,
              limitLaunches |-> FALSE, maxLaunches |-> 0,
              maxLevel |-> MaxLevel]

InitPaddle ==
    /\ InitProgram
    /\ env = [maxMoves |-> MaxPaddleMoves, maxFlight |-> MaxPaddleFlight,
              flightMoves |-> TRUE, angles |-> LaunchAngles,
              limitLaunches |-> FALSE, maxLaunches |-> 0,
              maxLevel |-> MaxLevel]

InitRally ==
    /\ InitProgram
    /\ env = [maxMoves |-> MaxRallyMoves, maxFlight |-> MaxRallyFlight,
              flightMoves |-> FALSE, angles |-> RallyAngles,
              limitLaunches |-> TRUE, maxLaunches |-> MaxRallyLaunches,
              maxLevel |-> MaxLevel]

InitWall ==
    /\ InitProgram
    /\ env = [maxMoves |-> MaxWallMoves, maxFlight |-> MaxWallFlight,
              flightMoves |-> TRUE, angles |-> WallAngles,
              limitLaunches |-> TRUE, maxLaunches |-> MaxWallLaunches,
              maxLevel |-> MaxLevel]

InitLevels ==
    /\ InitProgram
    /\ env = [maxMoves |-> MaxLevelsMoves, maxFlight |-> MaxLevelsFlight,
              flightMoves |-> FALSE, angles |-> LevelsAngles,
              limitLaunches |-> FALSE, maxLaunches |-> 0,
              maxLevel |-> MaxLevelsLevel]

\* op after a call of tick(): "tick_game_over" when it returned at once
\* because game_over was set, "tick" when it ran the frame
IsTick(o) == o \in {"tick", "tick_game_over"}

\* the timer callback: one call of tick()
Tick ==
    /\ ball.stuck \/ game_over \/ flight < env.maxFlight
    /\ Commit(tick(G))
    /\ op' = IF game_over THEN "tick_game_over" ELSE "tick"
    /\ flight' = IF game_over THEN flight
                 ELSE IF ball'.stuck THEN 0 ELSE flight + 1
    /\ UNCHANGED <<moves, restarts, launches, env, playVars>>

\* key "Left"
MoveLeft ==
    /\ moves < env.maxMoves
    /\ env.flightMoves \/ ball.stuck \/ game_over
    /\ Commit(move_left(G))
    /\ op' = "move_left"
    /\ moves' = moves + 1
    /\ UNCHANGED <<flight, restarts, launches, env, playVars>>

\* key "Right"
MoveRight ==
    /\ moves < env.maxMoves
    /\ env.flightMoves \/ ball.stuck \/ game_over
    /\ Commit(move_right(G))
    /\ op' = "move_right"
    /\ moves' = moves + 1
    /\ UNCHANGED <<flight, restarts, launches, env, playVars>>

\* key "space"
Launch ==
    /\ hud.level <= env.maxLevel
    /\ ~env.limitLaunches \/ ~ball.stuck \/ launches < env.maxLaunches
    \* random.uniform is called after the early return: a ball in flight
    \* draws no angle
    /\ \E angle \in (IF ball.stuck THEN env.angles ELSE {LAUNCH_MIN}) :
          Commit(launch(G, angle))
    /\ op' = "launch"
    /\ flight' = IF ball.stuck THEN 0 ELSE flight
    /\ launches' = IF env.limitLaunches /\ ball.stuck
                   THEN launches + 1 ELSE launches
    /\ UNCHANGED <<moves, restarts, env, playVars>>

\* key "r" / "R"
Restart ==
    /\ restarts < MaxRestarts
    /\ Commit(restart(G))
    /\ op' = "restart"
    /\ restarts' = restarts + 1
    /\ UNCHANGED <<moves, flight, launches, env, playVars>>

Next == Tick \/ MoveLeft \/ MoveRight \/ Launch \/ Restart

Spec == Init /\ [][Next]_vars

SpecPaddle == InitPaddle /\ [][Next]_vars

SpecRally == InitRally /\ [][Next]_vars

SpecWall == InitWall /\ [][Next]_vars

SpecLevels == InitLevels /\ [][Next]_vars

\* Tic_tac_toe.py: one line typed at get_move's prompt
ReadMove ==
    /\ pc = "input"
    /\ \E text \in Inputs :
          LET t == play(T, text)
          IN /\ board' = t.board
             /\ current' = t.current
             /\ pc' = t.pc
             /\ outcome' = t.outcome
             /\ said' = get_move(current, board, text).said
    /\ UNCHANGED gameVars

NextPlay == ReadMove

SpecPlay == Init /\ [][NextPlay]_vars

(* ------------------------------ properties ------------------------------ *)
\* In a step whose op' is a tick that runs the frame, the program state at
\* the start of wall_collisions and at the start of brick_collisions.
AtWalls == paddle_ball_collision(update(G))
AtBricks == wall_collisions(AtWalls)

\* the tick about to run finds the free ball at or below the bottom threshold
Breach ==
    /\ ~game_over
    /\ LET b == AtWalls.ball
       IN ~b.stuck /\ b.y <= px(BOTTOM_WALL - 60)

AllVisible == [i \in 1..NBricks |-> TRUE]
Visible(b) == {i \in DOMAIN b : b[i]}

\* the ball's box at position (x, y) overlaps the box of brick i
OverBrick(x, y, i) ==
    /\ Abs(x - brick_x(i)) * 2 < px(BALL_SIZE) + px(BRICK_W)
    /\ Abs(y - brick_y(i)) * 2 < px(BALL_SIZE) + px(BRICK_H)

\* the tick about to run finds the free ball on the only visible brick
LastBrickHit ==
    /\ ~game_over
    /\ \E i \in DOMAIN bricks :
          /\ Visible(bricks) = {i}
          /\ LET b == AtBricks.ball
             IN ~b.stuck /\ OverBrick(b.x, b.y, i)

\* C1: game_over is set in the very tick in which a bottom breach brings
\* lives to 0, is never set while lives > 0, and once set stays set through
\* every tick, launch and paddle move; only restart() clears it.
C1_GameOverLatch ==
    [][ /\ (IsTick(op') /\ Breach /\ hud.lives = 1
              => game_over' /\ hud'.lives = 0)
        /\ (hud.lives > 0 /\ hud'.lives <= 0 => IsTick(op') /\ game_over')
        /\ (game_over' => hud'.lives <= 0)
        /\ (game_over /\ op' # "restart" => game_over') ]_vars

\* the game is over and a launch() was issued after it
C1_Witness == game_over /\ hud.lives = 0 /\ op = "launch"

\* C2: a tick() called while game_over is set changes nothing: ball, paddle,
\* bricks, score, lives, level (and the starting speed) are as before.
C2_FrozenTick ==
    [][ IsTick(op') /\ game_over =>
          /\ ball' = ball
          /\ paddle' = paddle
          /\ bricks' = bricks
          /\ hud' = hud
          /\ game_over' = game_over
          /\ BALL_SPEED_START' = BALL_SPEED_START ]_vars

\* a tick() has just returned at once because the game is over
C2_Witness == game_over /\ op = "tick_game_over" /\ ~ball.stuck

\* C3: lives goes down by exactly 1 in a tick that finds the free ball at or
\* below y = BOTTOM_WALL - 60, and in no other step; it never goes below 0
\* and goes up only when restart() sets it to LIVES_START.
C3_Lives ==
    [][ /\ (IsTick(op') /\ Breach => hud'.lives = hud.lives - 1)
        /\ (hud'.lives < hud.lives
              => IsTick(op') /\ Breach /\ hud'.lives = hud.lives - 1)
        /\ hud'.lives >= 0
        /\ (hud'.lives > hud.lives
              => op' = "restart" /\ hud'.lives = LIVES_START) ]_vars

\* a tick has just taken the last life
C3_Witness == hud.lives = 0 /\ op = "tick" /\ game_over

\* C4: a tick that destroys the last visible brick with a free ball ends with
\* level one higher, the whole field visible again and the ball stuck on the
\* paddle at rest; score has the brick's points added and lives is unchanged.
C4_LevelAdvance ==
    [][ IsTick(op') /\ LastBrickHit =>
          /\ hud'.level = hud.level + 1
          /\ bricks' = AllVisible
          /\ ball'.stuck
          /\ ball'.dx = 0 /\ ball'.dy = 0
          /\ ball'.x = paddle'.x
          /\ ball'.y = paddle'.y + px(20)
          /\ hud'.score = hud.score + 10
          /\ hud'.lives = hud.lives ]_vars

\* a tick has just advanced the level: the field is whole and the score of
\* the cleared field is kept
C4_Witness ==
    /\ op = "tick"
    /\ hud.level = 2
    /\ hud.score = 10 * NBricks
    /\ bricks = AllVisible
    /\ ball.stuck

\* C5: a tick makes at most one brick invisible (and scores at most one
\* brick), and when the ball overlaps visible bricks the one destroyed is the
\* first of them in creation order.
C5_OneBrickPerTick ==
    [][ IsTick(op') /\ ~game_over =>
          LET gone == {i \in DOMAIN bricks : bricks[i] /\ ~bricks'[i]}
              over == {i \in Visible(bricks) :
                         OverBrick(AtBricks.ball.x, AtBricks.ball.y, i)}
          IN /\ Cardinality(gone) <= 1
             /\ hud'.score - hud.score \in {0, 10}
             /\ (~AtBricks.ball.stuck /\ over # {}
                   => /\ hud'.score = hud.score + 10
                      /\ \/ hud'.level = hud.level + 1
                         \/ \E i \in over : /\ \A j \in over : i <= j
                                            /\ gone = {i}) ]_vars

\* a tick has just destroyed brick 1 while the ball's box also overlaps
\* brick 2, which is still visible
C5_Witness ==
    /\ op = "tick"
    /\ ~ball.stuck
    /\ ~bricks[1] /\ bricks[2]
    /\ OverBrick(ball.x, ball.y, 1)
    /\ OverBrick(ball.x, ball.y, 2)

\* C6: an invisible brick becomes visible again only through a level advance
\* or restart(); launch() and the paddle moves leave every brick as it is and
\* a tick within a level only shrinks the set of visible bricks.
C6_BricksMonotone ==
    [][ /\ ((\E i \in DOMAIN bricks : ~bricks[i] /\ bricks'[i])
              => \/ op' = "restart"
                 \/ IsTick(op') /\ hud'.level = hud.level + 1)
        /\ (op' \in {"launch", "move_left", "move_right"} => bricks' = bricks)
        /\ (IsTick(op') /\ hud'.level = hud.level
              => Visible(bricks') \subseteq Visible(bricks)) ]_vars

\* a life was lost after a brick had been destroyed, and the brick is still
\* invisible
C6_Witness ==
    /\ hud.lives < LIVES_START
    /\ hud.level = 1
    /\ Visible(bricks) # {} /\ Visible(bricks) # DOMAIN bricks
    /\ ball.stuck

\* C7: the paddle x stays within [-378, 378] = [-limit, limit], with
\* limit = WIDTH // 2 - PADDLE_W // 2 - 12, and a move toward the wall at
\* the limit leaves it at the limit.
C7_PaddleClamped ==
    [][ /\ paddle_limit = px(378)
        /\ paddle'.x >= -px(378) /\ paddle'.x <= px(378)
        /\ (op' = "move_right" /\ paddle.x = px(378) => paddle'.x = px(378))
        /\ (op' = "move_left" /\ paddle.x = -px(378) => paddle'.x = -px(378))
      ]_vars

\* fourteen moves to the right: the thirteenth reached the limit
C7_Witness == op = "move_right" /\ moves = 14 /\ paddle.x = px(378)

\* C8: after every tick that leaves the ball stuck, the ball is at
\* (paddle.x, paddle.y + 20) with velocity (0, 0).
C8_StuckOnPaddle ==
    IsTick(op) /\ ball.stuck =>
        /\ ball.x = paddle.x
        /\ ball.y = paddle.y + px(20)
        /\ ball.dx = 0
        /\ ball.dy = 0

\* the ball was put back on a paddle that had been moved, by a life loss
C8_Witness ==
    /\ op = "tick"
    /\ ball.stuck
    /\ paddle.x # 0
    /\ hud.lives < LIVES_START

\* C9: speed_mag is always between the starting speed in force and 14.0.
C9_SpeedRange ==
    /\ BALL_SPEED_START <= ball.speed_mag
    /\ ball.speed_mag <= 14 * Scale

\* a rally has brought the free ball to the speed cap
C9_Witness == ~ball.stuck /\ ball.speed_mag = 14 * Scale

\* C10: restart() leaves score 0, lives LIVES_START, level 1, the starting
\* speed back at 6.0, game_over cleared, a whole field, and the ball stuck on
\* the paddle at rest with speed_mag 6.0.
C10_Restart ==
    [][ op' = "restart" =>
          /\ hud' = [score |-> 0, lives |-> LIVES_START, level |-> 1]
          /\ BALL_SPEED_START' = 6 * Scale
          /\ ~game_over'
          /\ bricks' = AllVisible
          /\ ball'.stuck
          /\ ball'.dx = 0 /\ ball'.dy = 0
          /\ ball'.speed_mag = 6 * Scale
          /\ ball'.x = paddle'.x
          /\ ball'.y = paddle'.y + px(20) ]_vars

\* restart() has just run in the middle of a flight, after paddle moves
C10_Witness ==
    /\ op = "restart"
    /\ flight > 100
    /\ moves > 0
    /\ hud.score = 0
    /\ ball.stuck

\* C11: launch() on a ball that is not stuck changes nothing.  On a stuck
\* ball it clears stuck and sets the velocity to speed_mag at an angle within
\* [35, 145] degrees, so dy > 0; the ball position, speed_mag, score, lives,
\* level, the bricks, the paddle and game_over stay as they were.
C11_Launch ==
    [][ op' = "launch" =>
          /\ paddle' = paddle
          /\ bricks' = bricks
          /\ hud' = hud
          /\ game_over' = game_over
          /\ BALL_SPEED_START' = BALL_SPEED_START
          /\ (~ball.stuck => ball' = ball)
          /\ (ball.stuck =>
                /\ ~ball'.stuck
                /\ ball'.dy > 0
                /\ \E a \in 35..145 :
                      /\ ball'.dx = RoundDiv(Cos(a) * ball.speed_mag, TrigScale)
                      /\ ball'.dy = RoundDiv(Sin(a) * ball.speed_mag, TrigScale)
                /\ Abs(hypot(ball'.dx, ball'.dy) - ball.speed_mag) <= 1
                /\ ball'.x = ball.x
                /\ ball'.y = ball.y
                /\ ball'.speed_mag = ball.speed_mag) ]_vars

\* launch() was called on a ball in flight above the paddle
C11_Witness ==
    /\ op = "launch"
    /\ ~ball.stuck
    /\ flight > 50
    /\ ~game_over

\* C12: while game_over is set, launch(), move_left(), move_right() and
\* tick() change nothing of the ball, the paddle, the bricks, score, lives or
\* level, and game_over stays set; only restart() leaves the state.
C12_GameOverFrozen ==
    [][ game_over /\ op' # "restart" =>
          /\ ball' = ball
          /\ paddle' = paddle
          /\ bricks' = bricks
          /\ hud' = hud
          /\ game_over' ]_vars

\* the tick about to run finds the free ball on visible brick i, the first
\* overlapped one in creation order; b is the ball at the start of the brick
\* stage
FirstHit(b, i) ==
    /\ ~game_over
    /\ ~b.stuck
    /\ i \in Visible(bricks)
    /\ OverBrick(b.x, b.y, i)
    /\ \A j \in Visible(bricks) : OverBrick(b.x, b.y, j) => i <= j

FirstBrickHit(i) == FirstHit(AtBricks.ball, i)

\* C13: a tick in which the free ball hits a brick that is not the last
\* visible one adds exactly 10 to score, makes exactly that brick invisible
\* and leaves the others as they were, raises speed_mag by 0.05 (capped at
\* 14.0) and leaves lives and level unchanged; from score 0 the first such hit
\* gives score 10.
C13_BrickHit ==
    [][ IsTick(op') =>
          LET b == AtBricks.ball
          IN \A i \in DOMAIN bricks :
             FirstHit(b, i) /\ Visible(bricks) # {i} =>
                /\ hud'.score = hud.score + 10
                /\ bricks' = [bricks EXCEPT ![i] = FALSE]
                /\ ball'.speed_mag =
                      Min2(14 * Scale, ball.speed_mag + (5 * Scale) \div 100)
                /\ hud'.lives = hud.lives
                /\ hud'.level = hud.level
                /\ ~ball'.stuck
                /\ (hud.score = 0 => hud'.score = 10) ]_vars

\* the first brick hit of a game: one brick gone, score 10, the ball faster
C13_Witness ==
    /\ op = "tick"
    /\ ~ball.stuck
    /\ hud = [score |-> 10, lives |-> LIVES_START, level |-> 1]
    /\ Cardinality(Visible(bricks)) = NBricks - 1
    /\ ball.speed_mag = 6 * Scale + (5 * Scale) \div 100

\* C14: level starts at 1; it goes up by exactly 1 in a tick that ends with
\* the whole field cleared and is set to 1 by restart(); a life loss, a
\* launch, a paddle move or any other tick leaves it as it is, and it never
\* goes up by more than 1 in a tick.
C14_Level ==
    [][ /\ (op = "init" => hud.level = 1)
        /\ (hud'.level # hud.level =>
              \/ op' = "restart"
              \/ IsTick(op') /\ LastBrickHit /\ hud'.level = hud.level + 1)
        /\ (op' = "restart" => hud'.level = 1)
        /\ (IsTick(op') /\ LastBrickHit => hud'.level = hud.level + 1)
        /\ (IsTick(op') /\ Breach => hud'.level = hud.level)
        /\ (op' \in {"launch", "move_left", "move_right"}
              => hud'.level = hud.level)
        /\ hud'.level <= hud.level + 1
        /\ hud'.level >= 1 ]_vars

\* level 2 was reached after a life had been lost, and a ball is in flight
\* there with a brick already gone
C14_Witness ==
    /\ hud.level = 2
    /\ hud.lives < LIVES_START
    /\ ~ball.stuck
    /\ Visible(bricks) # DOMAIN bricks

\* C15: a breach tick with lives > 1 takes one life, leaves game_over clear
\* and the ball stuck at (paddle.x, paddle.y + 20) at rest with speed_mag
\* back at the starting speed in force; score, level, the paddle and every
\* brick are unchanged.  With lives = 1 the ball is not reset: it stays free
\* at the position the frame moved it to.
C15_LifeLoss ==
    [][ IsTick(op') /\ Breach =>
          /\ hud'.score = hud.score
          /\ hud'.level = hud.level
          /\ paddle' = paddle
          /\ bricks' = bricks
          /\ BALL_SPEED_START' = BALL_SPEED_START
          /\ (hud.lives > 1 =>
                /\ hud'.lives = hud.lives - 1
                /\ ~game_over'
                /\ ball' = [x |-> paddle.x, y |-> paddle.y + px(20),
                            dx |-> 0, dy |-> 0,
                            speed_mag |-> BALL_SPEED_START, stuck |-> TRUE])
          /\ (hud.lives = 1 =>
                /\ game_over'
                /\ ~ball'.stuck
                /\ ball'.y = ball.y + ball.dy
                /\ ball'.y <= px(BOTTOM_WALL - 60)
                /\ ball'.dy = ball.dy
                /\ Abs(ball'.dx) = Abs(ball.dx)
                /\ Abs(ball'.x) <= Abs(ball.x + ball.dx)
                /\ ball'.speed_mag = ball.speed_mag) ]_vars

\* a life was just lost by a ball that had destroyed a brick and gained speed:
\* it is back on the moved paddle at the starting speed
C15_Witness ==
    /\ op = "tick"
    /\ ball.stuck
    /\ hud.lives = LIVES_START - 1
    /\ hud.score = 10
    /\ paddle.x # 0
    /\ ball.speed_mag = BALL_SPEED_START
    /\ flight = 0

\* the ball's box at position (x, y) overlaps the paddle's box
OverPaddle(x, y) ==
    /\ Abs(x - paddle.x) * 2 < px(12) + px(120)
    /\ Abs(y - paddle.y) * 2 < px(12) + px(18)

\* the tick about to run moves the free ball onto the paddle while it falls
PaddleHit ==
    /\ ~game_over
    /\ ~ball.stuck
    /\ OverPaddle(ball.x + ball.dx, ball.y + ball.dy)
    /\ ball.dy < 0

\* C16: a paddle hit is registered only when the ball is free, the boxes
\* overlap and dy < 0; otherwise the paddle stage leaves the ball untouched.
\* After a registered hit dy > 0, the ball's y is paddle.y + 28 and speed_mag
\* has grown by 0.15 (capped at 14.0), so the following tick cannot register
\* the bounce again.
C16_PaddleHit ==
    [][ IsTick(op') /\ ~game_over =>
          /\ (PaddleHit =>
                /\ ~ball'.stuck
                /\ ball'.dy > 0
                /\ ball'.y = paddle.y + px(28)
                /\ ball'.x = ball.x + ball.dx
                /\ ball'.speed_mag =
                      Min2(14 * Scale, ball.speed_mag + (15 * Scale) \div 100)
                /\ paddle' = paddle
                /\ ~(/\ OverPaddle(ball'.x + ball'.dx, ball'.y + ball'.dy)
                     /\ ball'.dy < 0))
          /\ (~ball.stuck /\ ~PaddleHit =>
                /\ AtWalls.ball = [ball EXCEPT !.x = ball.x + ball.dx,
                                               !.y = ball.y + ball.dy]
                /\ (~ball'.stuck =>
                      ball'.speed_mag <= ball.speed_mag + (5 * Scale) \div 100))
      ]_vars

\* the ball has just bounced off the paddle to the side: it is at the nudge
\* height, rising, and faster than a ball that only hit bricks could be
C16_Witness ==
    /\ op = "tick"
    /\ ~ball.stuck
    /\ ball.y = paddle.y + px(28)
    /\ ball.dy > 0
    /\ ball.dx # 0
    /\ ball.speed_mag >= 6 * Scale + (15 * Scale) \div 100

Sgn(n) == IF n > 0 THEN 1 ELSE IF n < 0 THEN -1 ELSE 0

\* the velocity of ball b after the bounce off brick i: dx inverted when the
\* horizontal penetration is strictly the smaller one, dy inverted otherwise
Bounced(b, i) ==
    LET overlap_x == (px(78) \div 2 + px(12) \div 2) - Abs(b.x - brick_x(i))
        overlap_y == (px(24) \div 2 + px(12) \div 2) - Abs(b.y - brick_y(i))
    IN IF overlap_x < overlap_y
       THEN [b EXCEPT !.dx = -b.dx]
       ELSE [b EXCEPT !.dy = -b.dy]

C19_LaunchAbovePaddle ==
    [][ op' = "launch" /\ ball.stuck =>
          /\ ~ball'.stuck
          /\ ball'.x = paddle'.x
          /\ ball'.y = paddle'.y + px(20) ]_vars

\* C19 amended: at the moment launch() clears stuck, ball.y = paddle.y + 20
\* and ball.x is the paddle x of the last tick() or reset: launch() itself
\* moves nothing, so ball.x = paddle.x when the launch directly follows a
\* tick(), restart() or the construction, and a paddle move made since then
\* is not followed by the ball.
C19_LaunchPosition ==
    [][ /\ (op' = "launch" /\ ball.stuck =>
              /\ ~ball'.stuck
              /\ ball'.y = paddle'.y + px(20)
              /\ ball'.x = ball.x
              /\ paddle' = paddle
              /\ (op \in {"init", "tick", "restart"} => ball'.x = paddle'.x))
        /\ (op' \in {"move_left", "move_right"} /\ ball.stuck =>
              ball' = ball) ]_vars

\* a ball just launched from beside the paddle: the paddle was moved after
\* the last tick
C19_Witness ==
    /\ op = "launch"
    /\ ~ball.stuck
    /\ flight = 0
    /\ moves > 0
    /\ ball.x # paddle.x
    /\ ball.y = paddle.y + px(20)

\* C20: score = 10 * ((level - 1) * (bricks per field) + (invisible bricks of
\* the current field)) at every moment; score changes only by +10, in a tick
\* that hits a brick, or to 0, in restart(); a life loss or a level advance
\* by itself never changes it.
C20_Score ==
    [][ /\ hud.score = 10 * ((hud.level - 1) * NBricks
                             + (NBricks - Cardinality(Visible(bricks))))
        /\ hud'.score = 10 * ((hud'.level - 1) * NBricks
                              + (NBricks - Cardinality(Visible(bricks'))))
        /\ (hud'.score # hud.score =>
              \/ op' = "restart" /\ hud'.score = 0
              \/ /\ IsTick(op')
                 /\ hud'.score = hud.score + 10
                 /\ \E i \in DOMAIN bricks : FirstBrickHit(i))
        /\ (op' = "restart" => hud'.score = 0)
        /\ (IsTick(op') /\ Breach => hud'.score = hud.score)
        /\ (hud'.level = hud.level + 1 => hud'.score = hud.score + 10) ]_vars

\* a ball in flight on level 2 after a life loss, with a brick of the second
\* field gone: the score counts the whole first field and that brick
C20_Witness ==
    /\ hud.level = 2
    /\ hud.lives < LIVES_START
    /\ ~ball.stuck
    /\ Cardinality(Visible(bricks)) = NBricks - 1
    /\ hud.score = 10 * (NBricks + 1)

\* C21: in every reachable state the starting speed is a function of level:
\* BALL_SPEED_START = min(10.0, 6.0 + 0.5 * (level - 1)), so a level advance
\* raises it by 0.5 up to the cap 10.0 and restart() brings it back to 6.0
\* with level 1; a ball resting on the paddle has the starting speed in
\* force as its speed_mag.
C21_Baseline ==
    /\ BALL_SPEED_START =
          Min2(10 * Scale, 6 * Scale + (Scale \div 2) * (hud.level - 1))
    /\ (ball.stuck => ball.speed_mag = BALL_SPEED_START)
    /\ (op = "restart" => hud.level = 1 /\ BALL_SPEED_START = 6 * Scale)

\* level 10 has just been reached: the starting speed stays at the cap 10.0,
\* below 6.0 + 0.5 * 9, and is the speed of the ball on the paddle
C21_Witness ==
    /\ op = "tick"
    /\ hud.level = 10
    /\ ball.stuck
    /\ BALL_SPEED_START = 10 * Scale
    /\ ball.speed_mag = 10 * Scale

\* C22: move_left() and move_right() change only the paddle x, by
\* PADDLE_SPEED = 30 and then clamped: the paddle y, the ball (position,
\* velocity, speed_mag, stuck), every brick, score, lives, level and
\* game_over are left as they were, in every game state, with the ball stuck
\* or in flight.
C22_MoveFrame ==
    [][ op' \in {"move_left", "move_right"} =>
          /\ paddle'.y = paddle.y
          /\ ball' = ball
          /\ bricks' = bricks
          /\ hud' = hud
          /\ game_over' = game_over
          /\ BALL_SPEED_START' = BALL_SPEED_START
          /\ (op' = "move_left"
                => paddle'.x = Max2(-px(378), paddle.x - px(30)))
          /\ (op' = "move_right"
                => paddle'.x = Min2(px(378), paddle.x + px(30))) ]_vars

\* the paddle has just moved left under a ball stuck after a brick was
\* destroyed: the ball stays where the last tick put it
C22_Witness ==
    /\ op = "move_left"
    /\ ball.stuck
    /\ ball.x = paddle.x + px(30)
    /\ hud.score > 0
    /\ hud.lives < LIVES_START

\* the number of cells of board b holding mark m
Marks(b, m) == Cardinality({i \in DOMAIN b : b[i] = m})

\* board b holds three marks m on a row, a column or a diagonal
Line(b, m) ==
    \E l \in {{0, 1, 2}, {3, 4, 5}, {6, 7, 8}, {0, 3, 6}, {1, 4, 7},
              {2, 5, 8}, {0, 4, 8}, {2, 4, 6}} : \A i \in l : b[i] = m

\* C23: X moves first and the players alternate; an accepted move marks an
\* empty cell with index 0..8 for the player whose turn it is, so no mark is
\* overwritten and the number of X marks minus the number of O marks is 0 or
\* 1 after every move; a rejected line of input (not a number, out of range,
\* cell taken) changes neither the board nor whose turn it is.
C23_Turns ==
    [][ /\ (said = "welcome" =>
              current = "X" /\ \A i \in DOMAIN board : board[i] = " ")
        /\ (pc = "input" =>
              current = IF Marks(board, "X") = Marks(board, "O")
                        THEN "X" ELSE "O")
        /\ Marks(board', "X") - Marks(board', "O") \in {0, 1}
        /\ (\A i \in DOMAIN board : board[i] # " " => board'[i] = board[i])
        /\ (said' = "accepted" /\ pc = "input" =>
              /\ \E i \in 0..8 :
                    /\ board[i] = " "
                    /\ board' = [board EXCEPT ![i] = current]
              /\ (pc' = "input" => current' # current))
        /\ (board' # board => said' = "accepted")
        /\ (said' \in {"not a number", "out of range", "taken"} =>
              /\ board' = board
              /\ current' = current
              /\ pc' = pc
              /\ outcome' = outcome) ]_vars

\* player O has just been told that the cell is taken, after five moves
C23_Witness ==
    /\ said = "taken"
    /\ pc = "input"
    /\ current = "O"
    /\ Marks(board, "X") = 3
    /\ Marks(board, "O") = 2

\* C24: play() ends at the first move that completes a row, column or
\* diagonal, announcing the player who made it, or else at the move that
\* fills the board, announcing a draw: it ends after at most 9 moves, a ninth
\* move that completes a line is a win and not a draw, and no move is
\* accepted once a line is complete.
C24_Outcome ==
    [][ /\ (pc = "input" =>
              /\ ~Line(board, "X") /\ ~Line(board, "O")
              /\ Marks(board, " ") >= 1
              /\ outcome = "None")
        /\ (board' # board =>
              /\ Marks(board', " ") = Marks(board, " ") - 1
              /\ (Line(board', current) =>
                    pc' = "done" /\ outcome' = current)
              /\ (~Line(board', current) /\ Marks(board', " ") = 0 =>
                    pc' = "done" /\ outcome' = "draw")
              /\ (~Line(board', current) /\ Marks(board', " ") > 0 =>
                    pc' = "input" /\ outcome' = "None"))
        /\ (pc' = "done" /\ outcome' = "draw" =>
              ~Line(board', "X") /\ ~Line(board', "O"))
        /\ (pc' = "done" => outcome' \in {"X", "O", "draw"})
        /\ (Line(board, "X") \/ Line(board, "O") \/ pc = "done" =>
              board' = board /\ pc' = pc /\ outcome' = outcome) ]_vars

\* X has won with the ninth move, on a full board
C24_Witness ==
    /\ pc = "done"
    /\ outcome = "X"
    /\ Marks(board, " ") = 0
    /\ Line(board, "X")
    /\ said = "accepted"

=============================================================================
